---- MODULE Spec2Model ----
(* Review worker of blai-codelens-backend: the file queue (queue.json), the  *)
(* polling loop main_loop, process_review and the artifact store, as         *)
(* written in src/server/worker.py.                                          *)
EXTENDS Integers, Sequences, FiniteSets, TLC

\* ---------------------------------------------------------------- bounds
MaxJobs == 3
MaxCrashes == 1
MaxFairJobs == 2
MaxConcJobs == 2
MaxItems == 2

\* ------------------------------------------------------- program constants
MaxFindings == 25

\* ------------------------------------------------------------ input sets
ReviewIds == 1..MaxJobs
GoodUrl == "https://example.org/repo.git"
BadUrl == "https://invalid.example/nope"
RepoUrls == {GoodUrl, BadUrl}
Payloads == {[repo_url |-> u] : u \in RepoUrls}

\* ------------------------------------------------- documents on disk / stdout
\* A text is absent (no file), empty (""), bad (does not parse as JSON), or
\* the JSON text of a value.
Absent == [fmt |-> "absent", val |-> <<>>]
EmptyText == [fmt |-> "empty", val |-> <<>>]
BadText == [fmt |-> "bad", val |-> <<>>]

dumps(v) == [fmt |-> "json", val |-> v]

\* `text or dflt`: Python's `or` on a string takes the default when it is "".
OrDefault(text, dflt) == IF text.fmt = "empty" THEN dflt ELSE text

\* json.loads raises json.JSONDecodeError on a text that is not JSON.
loads_raises(text) == text.fmt # "json"
loads(text) == text.val

\* Path.touch(exist_ok=True): creates an empty file when there is none.
touch(file) == IF file.fmt = "absent" THEN EmptyText ELSE file

NoJob == [review_id |-> 0, payload |-> [repo_url |-> ""]]

VARIABLES
    queueFile,      \* content of QUEUE_FILE
    artifacts,      \* ARTIFACTS_DIR: review_id -> document written, or Absent
    stagingDirs,    \* review ids whose mkdtemp directory exists
    wpc,            \* position of main_loop / process_review
    queue_data,     \* main_loop local
    job,            \* main_loop local
    err,            \* statement of process_review that raised, or "none"
    pylintProc,     \* what the pylint subprocess did for the current job
    semgrepProc,    \* what the semgrep subprocess did for the current job
    pylint_results, \* process_review local
    semgrep_results,\* process_review local
    triage,         \* process_review local
    enqueued,       \* history: review ids in append order
    dequeued,       \* history: review ids in pop order
    artifactWrites, \* history: review_id -> number of artifact writes
    active,         \* history: review ids inside process_review
    finished,       \* history: review ids whose process_review has exited
    lastIter,       \* history: how the last loop iteration ended
    crashes,        \* history: number of worker crashes
    crashLost,      \* history: review ids that were in flight at a crash
    api,            \* main.py: position and locals of enqueue_job
    response        \* main.py: the last answer of get_artifact

vars == <<queueFile, artifacts, stagingDirs, wpc, queue_data, job, err,
          pylintProc, semgrepProc, pylint_results, semgrep_results, triage,
          enqueued, dequeued, artifactWrites, active, finished, lastIter,
          crashes, crashLost, api, response>>

\* ------------------------------------------------------------- analyzers
\* What a subprocess.run call did: it returned ("exit") with an exit code and
\* a stdout text, raised TimeoutExpired ("timeout"), or raised
\* FileNotFoundError because the binary is not installed ("missing").
ProcResult(o, c, out) == [outcome |-> o, code |-> c, stdout |-> out]
NotRun == ProcResult("notrun", 0, EmptyText)

\* Raw pylint messages (pylint -f json prints a list of them).
PylintWarning == [type |-> "warning", path |-> "b.py", line |-> 3,
                  symbol |-> "unused-import", message |-> "Unused import os"]
PylintError == [type |-> "error", path |-> "a.py", line |-> 10,
                symbol |-> "E0001", message |-> "syntax error"]
PylintNoType == [path |-> "c.py", line |-> 7, symbol |-> "C0114"]

\* pylint exits 0 only when it has nothing to report; its exit code is a bit
\* mask of the message categories it printed (2 error, 4 warning, 32 usage).
PylintRuns ==
    { ProcResult("exit", 0, dumps(<<>>)),
      ProcResult("exit", 6, dumps(<<PylintWarning, PylintError>>)),
      ProcResult("exit", 32, EmptyText),
      ProcResult("exit", 1, BadText),
      ProcResult("timeout", 0, EmptyText),
      ProcResult("missing", 0, EmptyText) }

\* A JSON object as semgrep prints it: {} or {"results": [...]}.
EmptyDict == [has_results |-> FALSE, results |-> <<>>]
ResultsDict(r) == [has_results |-> TRUE, results |-> r]
SemgrepEmptyText == [fmt |-> "empty", val |-> EmptyDict]
SemgrepBadText == [fmt |-> "bad", val |-> EmptyDict]
SemgrepNotRun == ProcResult("notrun", 0, SemgrepEmptyText)

SemgrepError == [check_id |-> "python.lang.security.eval", path |-> "a.py",
                 start |-> [line |-> 4],
                 extra |-> [severity |-> "ERROR", message |-> "eval used",
                            lines |-> 12]]
SemgrepInfo == [check_id |-> "python.lang.maintainability.todo", path |-> "b.py",
                start |-> [line |-> 9],
                extra |-> [severity |-> "info", message |-> "todo left",
                           lines |-> 450]]

SemgrepRuns ==
    { ProcResult("exit", 0, dumps(ResultsDict(<<>>))),
      ProcResult("exit", 1, dumps(ResultsDict(<<SemgrepInfo, SemgrepError>>))),
      ProcResult("exit", 2, SemgrepEmptyText),
      ProcResult("exit", 0, SemgrepBadText),
      ProcResult("timeout", 0, SemgrepEmptyText),
      ProcResult("missing", 0, SemgrepEmptyText) }

\* subprocess.run raised inside the analyzer's try block.
RunRaises(p) == p.outcome \in {"timeout", "missing"}

\* Mutant of run_pylint: a non-zero exit code is treated as a failure.
run_pylint_checked(p) ==
    IF RunRaises(p) \/ p.code # 0 THEN <<>>
    ELSE LET out == OrDefault(p.stdout, dumps(<<>>))
         IN  IF loads_raises(out) THEN <<>> ELSE loads(out)

\* run_pylint: stdout is parsed whatever the exit code; any exception gives [].
run_pylint(p) ==
    IF RunRaises(p) THEN <<>>
    ELSE LET out == OrDefault(p.stdout, dumps(<<>>))
         IN  IF loads_raises(out) THEN <<>> ELSE loads(out)

\* run_semgrep: the same, with {} for an empty stdout and for any exception.
run_semgrep(p) ==
    IF RunRaises(p) THEN EmptyDict
    ELSE LET out == OrDefault(p.stdout, dumps(EmptyDict))
         IN  IF loads_raises(out) THEN EmptyDict ELSE loads(out)

\* ------------------------------------------------- normalizing and ranking
\* dict.get(key, default)
Get(item, key, dflt) == IF key \in DOMAIN item THEN item[key] ELSE dflt

\* str.lower / str.upper on the category and severity words the tools print.
Lower(w) ==
    CASE w = "ERROR" -> "error" [] w = "Error" -> "error"
      [] w = "WARNING" -> "warning" [] w = "Warning" -> "warning"
      [] w = "INFO" -> "info" [] w = "Info" -> "info"
      [] w = "FATAL" -> "fatal"
      [] OTHER -> w
\* Mutant of Upper: the severity word is looked up as printed.
UpperAsPrinted(w) == w
Upper(w) ==
    CASE w = "error" -> "ERROR" [] w = "Error" -> "ERROR"
      [] w = "warning" -> "WARNING" [] w = "Warning" -> "WARNING"
      [] w = "info" -> "INFO" [] w = "Info" -> "INFO"
      [] OTHER -> w

\* None for a string-valued and for a line-valued expression.
NoneStr == "<None>"
NoLine == -1
\* `a or b` on strings: None and "" are falsy.
OrStr(a, b) == IF a \in {NoneStr, ""} THEN b ELSE a

\* Mutant of map_pylint_to_finding: only the "error" category is high.
map_pylint_error_only(item) ==
    LET typ == Lower(Get(item, "type", ""))
        severity == IF typ = "error" THEN "high"
                    ELSE IF typ = "warning" THEN "medium"
                    ELSE "low"
        path == OrStr(Get(item, "path", NoneStr),
                      OrStr(Get(item, "module", NoneStr), "<unknown>"))
        line == Get(item, "line", 0)
        message == OrStr(Get(item, "message", NoneStr),
                         OrStr(Get(item, "symbol", NoneStr), "pylint issue"))
    IN  [id |-> [tool |-> "pylint", path |-> path, line |-> line,
                 symbol |-> Get(item, "symbol", "")],
         tool |-> "pylint",
         severity |-> severity,
         title |-> Get(item, "symbol", typ),
         description |-> message,
         evidence |-> <<[path |-> path, start_line |-> line, snippet |-> 0]>>,
         confidence |-> 8]

\* Confidence in tenths: 0.8 is 8.
map_pylint_to_finding(item) ==
    LET typ == Lower(Get(item, "type", ""))
        severity == IF typ \in {"error", "fatal"} THEN "high"
                    ELSE IF typ = "warning" THEN "medium"
                    ELSE "low"
        path == OrStr(Get(item, "path", NoneStr),
                      OrStr(Get(item, "module", NoneStr), "<unknown>"))
        line == Get(item, "line", 0)
        message == OrStr(Get(item, "message", NoneStr),
                         OrStr(Get(item, "symbol", NoneStr), "pylint issue"))
    IN  [id |-> [tool |-> "pylint", path |-> path, line |-> line,
                 symbol |-> Get(item, "symbol", "")],
         tool |-> "pylint",
         severity |-> severity,
         title |-> Get(item, "symbol", typ),
         description |-> message,
         evidence |-> <<[path |-> path, start_line |-> line, snippet |-> 0]>>,
         confidence |-> 8]

sev_map(w) ==
    CASE w = "ERROR" -> "high" [] w = "WARNING" -> "medium" [] w = "INFO" -> "low"
      [] OTHER -> "medium"

Min(a, b) == IF a < b THEN a ELSE b

\* A snippet is modelled by its length; extra["lines"][:400] keeps 400 of it.
map_semgrep_to_finding(item) ==
    LET extra == Get(item, "extra", [none |-> TRUE])
        check_id == OrStr(Get(item, "check_id", NoneStr),
                          OrStr(Get(extra, "id", NoneStr), "semgrep"))
        path == OrStr(Get(item, "path", NoneStr),
                      OrStr(Get(extra, "path", NoneStr), "<unknown>"))
        start == IF "start" \in DOMAIN item THEN Get(item.start, "line", NoLine)
                 ELSE IF "lines" \in DOMAIN extra THEN 0
                 ELSE NoLine
        severity == sev_map(Upper(OrStr(Get(extra, "severity", NoneStr), "medium")))
        message == OrStr(Get(extra, "message", NoneStr), check_id)
    IN  [id |-> [tool |-> "semgrep", check_id |-> check_id, path |-> path,
                 start |-> start],
         tool |-> "semgrep",
         severity |-> severity,
         title |-> check_id,
         description |-> message,
         evidence |-> <<[path |-> path,
                         start_line |-> IF start = NoLine THEN 0 ELSE start,
                         snippet |-> Min(Get(extra, "lines", 0), 400)]>>,
         confidence |-> IF severity = "high" THEN 9 ELSE 7]

\* A raw item that is not a JSON object: item.get raises AttributeError.
NotADict == [not_a_dict |-> TRUE]
MapRaises(item) == "not_a_dict" \in DOMAIN item

\* The for loops of lines 144-145 and 155-156: findings are appended item by
\* item, and the first item whose mapping raises ends that tool's loop.
\* Mutant of MapPylint: an item that raises discards the findings mapped so far.
MapPylintAllOrNothing(items) ==
    IF \E i \in 1..Len(items) : MapRaises(items[i]) THEN <<>>
    ELSE [i \in 1..Len(items) |-> map_pylint_to_finding(items[i])]

RECURSIVE MapPylint(_)
MapPylint(items) ==
    IF items = <<>> \/ MapRaises(Head(items)) THEN <<>>
    ELSE <<map_pylint_to_finding(Head(items))>> \o MapPylint(Tail(items))

RECURSIVE MapSemgrep(_)
MapSemgrep(items) ==
    IF items = <<>> \/ MapRaises(Head(items)) THEN <<>>
    ELSE <<map_semgrep_to_finding(Head(items))>> \o MapSemgrep(Tail(items))

\* semg_results_list: the "results" of a dict that has them, else nothing.
SemgResultsList(res) == IF res.has_results THEN res.results ELSE <<>>

MergedFindings(pyl, sem) == MapPylint(pyl) \o MapSemgrep(SemgResultsList(sem))

severity_order(sev) ==
    CASE sev = "high" -> 3 [] sev = "medium" -> 2 [] sev = "low" -> 1 [] OTHER -> 1

\* sorted(..., reverse=True) is stable: a finding goes after every finding
\* already placed whose key is at least its own.
RECURSIVE InsertByKey(_, _)
\* Mutant of InsertByKey: a finding goes before those of equal key.
InsertBeforeEqual(f, placed) ==
    IF placed = <<>> THEN <<f>>
    ELSE IF severity_order(Head(placed).severity) > severity_order(f.severity)
         THEN <<Head(placed)>> \o InsertByKey(f, Tail(placed))
         ELSE <<f>> \o placed

InsertByKey(f, placed) ==
    IF placed = <<>> THEN <<f>>
    ELSE IF severity_order(Head(placed).severity) >= severity_order(f.severity)
         THEN <<Head(placed)>> \o InsertByKey(f, Tail(placed))
         ELSE <<f>> \o placed

RECURSIVE SortedFrom(_, _)
SortedFrom(todo, placed) ==
    IF todo = <<>> THEN placed
    ELSE SortedFrom(Tail(todo), InsertByKey(Head(todo), placed))

findings_sorted(findings) == SortedFrom(findings, <<>>)

NoIssues == [id |-> [name |-> "no-issues"], severity |-> "low",
             short_reason |-> "No issues detected by static analyzers.",
             evidence |-> <<>>]

\* Mutant of Triage: the list is cut to the cap before it is sorted.
TriageCutFirst(findings) ==
    IF findings = <<>> THEN [findings |-> <<NoIssues>>]
    ELSE [findings |-> findings_sorted(SubSeq(findings, 1,
                                              Min(Len(findings), MaxFindings)))]
\* Mutant of Triage: no synthetic finding for an empty list.
TriageNoSynthetic(findings) ==
    [findings |-> SubSeq(findings_sorted(findings), 1,
                         Min(Len(findings), MaxFindings))]

\* Lines 160-174: the triage of a merged finding list.
Triage(findings) ==
    IF findings = <<>> THEN [findings |-> <<NoIssues>>]
    ELSE [findings |-> SubSeq(findings_sorted(findings), 1,
                              Min(Len(findings), MaxFindings))]

NoTriage == [findings |-> <<>>]

\* Lines 179-190: the document written for a review (no status field, the
\* patch is always None; the timestamp is left out).
Result(review_id, repo_url, tri) ==
    dumps([review_id |-> review_id, repo |-> repo_url, triage |-> tri,
           patch |-> NoneStr])

\* ------------------------------------------------------------------ main.py
\* enqueue_job is between requests, or has read the queue file (lines 58-61)
\* and not yet rewritten it (lines 63-64).
ApiIdle == [pc |-> "idle", queue_data |-> <<>>, job |-> NoJob]

\* get_artifact has not been called.
NoResponse == [status |-> 0, id |-> 0, body |-> Absent]

\* get_artifact, lines 87-92: 404 when the file does not exist, else the
\* parsed content of the file.
get_artifact(files, review_id) ==
    IF files[review_id].fmt = "absent"
    THEN [status |-> 404, id |-> review_id, body |-> Absent]
    ELSE [status |-> 200, id |-> review_id,
          body |-> dumps(loads(files[review_id]))]

\* ------------------------------------------------------------ initial state
\* The queue file as the worker may find it at start-up: not there, empty
\* (main.py touches it), or holding text that is not JSON.
InitialQueueFiles == {Absent, EmptyText, BadText}

Init ==
    /\ queueFile \in InitialQueueFiles
    /\ artifacts = [i \in ReviewIds |-> Absent]
    /\ stagingDirs = {}
    /\ wpc = "poll"
    /\ queue_data = <<>>
    /\ job = NoJob
    /\ err = "none"
    /\ pylintProc = NotRun
    /\ semgrepProc = SemgrepNotRun
    /\ pylint_results = <<>>
    /\ semgrep_results = EmptyDict
    /\ triage = NoTriage
    /\ enqueued = <<>>
    /\ dequeued = <<>>
    /\ artifactWrites = [i \in ReviewIds |-> 0]
    /\ active = {}
    /\ finished = {}
    /\ lastIter = "none"
    /\ crashes = 0
    /\ crashLost = {}
    /\ api = ApiIdle
    /\ response = NoResponse

store == <<artifacts, artifactWrites>>
locals == <<pylintProc, semgrepProc, pylint_results, semgrep_results, triage>>
crashHist == <<crashes, crashLost>>
web == <<api, response>>
progress == <<active, finished>>

\* ------------------------------------------------------------------ queue
\* The list a queue text holds; malformed text is taken as [] (line 208).
QueueOf(file) ==
    LET text == OrDefault(file, dumps(<<>>))
    IN  IF loads_raises(text) THEN <<>> ELSE loads(text)

\* enqueue_review, lines 204-211: the file after the call.
EnqueueFile(file, j) == dumps(Append(QueueOf(touch(file)), j))

\* An append is taken whole (read, append, rewrite) and outside the loop's own
\* read-rewrite window: lines 221-224 hold no await. Review ids are fresh, as
\* the submission boundary generates them.
EnqueueReview(payload) ==
    /\ Len(enqueued) < MaxJobs
    /\ wpc # "pop"
    /\ LET review_id == Len(enqueued) + 1
           j == [review_id |-> review_id, payload |-> payload]
       IN  /\ queueFile' = EnqueueFile(queueFile, j)
           /\ enqueued' = Append(enqueued, review_id)
    /\ UNCHANGED <<store, stagingDirs, wpc, queue_data, job, err, locals,
                   dequeued, progress, lastIter, crashHist, web>>

\* --------------------------------------------------------------- main_loop
\* Line 218 / 229: the loop is back at its top only after the awaited
\* process_review and the sleep are over.
\* Mutant of LoopAtTop: process_review is started but not awaited.
LoopAtTopNoAwait == wpc \in {"poll", "clone", "pylint", "semgrep", "collect"}
LoopAtTop == wpc = "poll"

\* Lines 226-227: an exception inside the try block is printed and the loop
\* goes on to its sleep.
\* Mutant of QueueErrorHandler: the exception ends main_loop.
QueueErrorUncaught == "crashed"
QueueErrorHandler == "sleep"

\* Mutant of Pop: the last job is taken.
PopLast(q) == [job |-> q[Len(q)], rest |-> SubSeq(q, 1, Len(q) - 1)]
\* Mutant of Pop: the head is read but not removed.
PopPeek(q) == [job |-> Head(q), rest |-> q]
\* Mutant of Pop: the list written back is emptied.
PopAndClear(q) == [job |-> Head(q), rest |-> <<>>]
\* Line 223, queue_data.pop(0): the job taken and the list left.
Pop(q) == [job |-> Head(q), rest |-> Tail(q)]

\* Lines 219-222: look for the file, read and parse it, test for a job.
WorkerRead ==
    /\ LoopAtTop
    /\ IF queueFile.fmt = "absent"
       THEN /\ wpc' = "sleep"
            /\ lastIter' = "nofile"
            /\ UNCHANGED queue_data
       ELSE LET text == OrDefault(queueFile, dumps(<<>>))
            IN  IF loads_raises(text)
                THEN /\ wpc' = QueueErrorHandler
                     /\ lastIter' = "queue_error"
                     /\ UNCHANGED queue_data
                ELSE IF loads(text) = <<>>
                THEN /\ wpc' = "sleep"
                     /\ lastIter' = "empty"
                     /\ UNCHANGED queue_data
                ELSE /\ wpc' = "pop"
                     /\ queue_data' = loads(text)
                     /\ UNCHANGED lastIter
    /\ UNCHANGED <<queueFile, store, stagingDirs, job, err, locals, enqueued,
                   dequeued, progress, crashHist, web>>

\* Lines 223-224: pop the head and rewrite the file.
WorkerPop ==
    /\ wpc = "pop"
    /\ job' = Pop(queue_data).job
    /\ queue_data' = Pop(queue_data).rest
    /\ queueFile' = dumps(Pop(queue_data).rest)
    /\ dequeued' = Append(dequeued, Pop(queue_data).job.review_id)
    /\ lastIter' = "none"
    /\ wpc' = "mkdtemp"
    /\ UNCHANGED <<store, stagingDirs, err, locals, enqueued, progress, crashHist, web>>

\* Line 229.
Sleep ==
    /\ wpc = "sleep"
    /\ wpc' = "poll"
    /\ UNCHANGED <<queueFile, store, stagingDirs, queue_data, job, err, locals,
                   enqueued, dequeued, progress, lastIter, crashHist, web>>

\* ---------------------------------------------------------- process_review
\* Line 68: tempfile.mkdtemp creates the staging directory.
Mkdtemp ==
    /\ wpc = "mkdtemp"
    /\ stagingDirs' = stagingDirs \cup {job.review_id}
    /\ active' = active \cup {job.review_id}
    /\ wpc' = "mkdir"
    /\ UNCHANGED <<queueFile, store, queue_data, job, err, locals, enqueued,
                   dequeued, finished, lastIter, crashHist, web>>

\* Line 69: ARTIFACTS_DIR.mkdir(exist_ok=True) stands before the try block; when
\* it raises (the path is a regular file, the directory cannot be created) the
\* exception leaves process_review and is caught by main_loop at line 226.
MkArtifactsDir ==
    /\ wpc = "mkdir"
    /\ \E ok \in BOOLEAN :
        IF ok
        THEN /\ wpc' = "clone"
             /\ UNCHANGED <<job, progress, lastIter>>
        ELSE /\ wpc' = QueueErrorHandler
             /\ job' = NoJob
             /\ active' = active \ {job.review_id}
             /\ finished' = finished \cup {job.review_id}
             /\ lastIter' = "escaped"
    /\ UNCHANGED <<queueFile, store, stagingDirs, queue_data, err, locals,
                   enqueued, dequeued, crashHist, web>>

\* Line 74: Repo.clone_from. An invalid URL always fails; a valid one may.
Clone ==
    /\ wpc = "clone"
    /\ \E ok \in BOOLEAN :
        /\ ok => job.payload.repo_url = GoodUrl
        /\ IF ok
           THEN wpc' = "pylint" /\ UNCHANGED err
           ELSE wpc' = "finally" /\ err' = "clone"
    /\ UNCHANGED <<queueFile, store, stagingDirs, queue_data, job, locals,
                   enqueued, dequeued, progress, lastIter, crashHist, web>>

\* Line 77.
RunPylint ==
    /\ wpc = "pylint"
    /\ \E p \in PylintRuns :
        /\ pylintProc' = p
        /\ pylint_results' = run_pylint(p)
    /\ wpc' = "semgrep"
    /\ UNCHANGED <<queueFile, store, stagingDirs, queue_data, job, err,
                   semgrepProc, semgrep_results, triage, enqueued, dequeued,
                   progress, lastIter, crashHist, web>>

\* Line 78.
RunSemgrep ==
    /\ wpc = "semgrep"
    /\ \E p \in SemgrepRuns :
        /\ semgrepProc' = p
        /\ semgrep_results' = run_semgrep(p)
    /\ wpc' = "collect"
    /\ UNCHANGED <<queueFile, store, stagingDirs, queue_data, job, err,
                   pylintProc, pylint_results, triage, enqueued, dequeued,
                   progress, lastIter, crashHist, web>>

\* Lines 82-89: rglob("*.py") and read_text; read_text raises on a directory
\* named like a Python file or on an unreadable file.
CollectFiles ==
    /\ wpc = "collect"
    /\ \E ok \in BOOLEAN :
        IF ok
        THEN wpc' = "rank" /\ UNCHANGED err
        ELSE wpc' = "finally" /\ err' = "collect"
    /\ UNCHANGED <<queueFile, store, stagingDirs, queue_data, job, locals,
                   enqueued, dequeued, progress, lastIter, crashHist, web>>

\* Lines 141-176.
Rank ==
    /\ wpc = "rank"
    /\ triage' = Triage(MergedFindings(pylint_results, semgrep_results))
    /\ wpc' = "write"
    /\ UNCHANGED <<queueFile, store, stagingDirs, queue_data, job, err,
                   pylintProc, semgrepProc, pylint_results, semgrep_results,
                   enqueued, dequeued, progress, lastIter, crashHist, web>>

\* Lines 179-190: write_text of the result; it may raise (disk full, no
\* permission), and then nothing is written.
WriteArtifact ==
    /\ wpc = "write"
    /\ \E ok \in BOOLEAN :
        IF ok
        THEN /\ artifacts' = [artifacts EXCEPT ![job.review_id] =
                                Result(job.review_id, job.payload.repo_url, triage)]
             /\ artifactWrites' = [artifactWrites EXCEPT ![job.review_id] = @ + 1]
             /\ UNCHANGED err
        ELSE /\ err' = "write"
             /\ UNCHANGED store
    /\ wpc' = "finally"
    /\ UNCHANGED <<queueFile, stagingDirs, queue_data, job, locals, enqueued,
                   dequeued, progress, lastIter, crashHist, web>>

\* How an iteration that ran process_review to its end is recorded.
Ended(e) == IF e = "none" THEN "completed" ELSE e \o "_failed"

\* Line 197: shutil.rmtree(base_dir, ignore_errors=True).
Rmtree(dirs, d) == dirs \ {d}

\* Lines 194-197: the except clause only prints; the finally clause removes
\* the staging directory, and process_review returns.
Finally ==
    /\ wpc = "finally"
    /\ stagingDirs' = Rmtree(stagingDirs, job.review_id)
    /\ active' = active \ {job.review_id}
    /\ finished' = finished \cup {job.review_id}
    /\ lastIter' = Ended(err)
    /\ err' = "none"
    /\ job' = NoJob
    /\ pylintProc' = NotRun
    /\ semgrepProc' = SemgrepNotRun
    /\ pylint_results' = <<>>
    /\ semgrep_results' = EmptyDict
    /\ triage' = NoTriage
    /\ wpc' = "sleep"
    /\ UNCHANGED <<queueFile, store, queue_data, enqueued, dequeued, crashHist, web>>

Worker ==
    \/ WorkerRead
    \/ WorkerPop
    \/ Sleep
    \/ Mkdtemp
    \/ MkArtifactsDir
    \/ Clone
    \/ RunPylint
    \/ RunSemgrep
    \/ CollectFiles
    \/ Rank
    \/ WriteArtifact
    \/ Finally

Next ==
    \/ \E payload \in Payloads : EnqueueReview(payload)
    \/ Worker

Spec == Init /\ [][Next]_vars

\* The worker process keeps running: a step of the loop that can be taken is
\* taken. Liveness is checked with at most MaxFairJobs submissions.
FairNext ==
    \/ \E payload \in Payloads :
            Len(enqueued) < MaxFairJobs /\ EnqueueReview(payload)
    \/ Worker

FairSpec == Init /\ [][FairNext]_vars /\ WF_vars(Worker)

\* ------------------------------------------------------ crash and restart
\* The worker process dies between two statements and is started again:
\* main_loop begins anew with fresh locals; the files stay as they were.
Crash ==
    /\ crashes < MaxCrashes
    /\ wpc # "crashed"
    /\ crashes' = crashes + 1
    /\ crashLost' = IF job.review_id # 0 THEN crashLost \cup {job.review_id}
                    ELSE crashLost
    /\ wpc' = "poll"
    /\ queue_data' = <<>>
    /\ job' = NoJob
    /\ err' = "none"
    /\ pylintProc' = NotRun
    /\ semgrepProc' = SemgrepNotRun
    /\ pylint_results' = <<>>
    /\ semgrep_results' = EmptyDict
    /\ triage' = NoTriage
    /\ active' = {}
    /\ lastIter' = "crashed"
    /\ UNCHANGED <<queueFile, store, stagingDirs, enqueued, dequeued, finished,
                   web>>

CrashNext ==
    \/ Next
    \/ Crash

CrashSpec == Init /\ [][CrashNext]_vars

\* ------------------------------------------- the submission process (main.py)
\* The API process runs beside the worker process on the same queue file and
\* artifacts directory. Its handlers hold no await, so one request is served
\* at a time; the worker's statements fall between the statements of a
\* handler. main.py has touched the queue file when it was imported (line 45).
ConcInit == Init /\ queueFile # Absent

\* enqueue_job, lines 58-61: read and parse the queue file; a text that does
\* not parse is taken as []. The review id is fresh (line 76, uuid4).
ApiRead(payload) ==
    /\ api.pc = "idle"
    /\ Len(enqueued) < MaxConcJobs
    /\ queueFile.fmt # "absent"
    /\ api' = [pc |-> "write", queue_data |-> QueueOf(queueFile),
               job |-> [review_id |-> Len(enqueued) + 1, payload |-> payload]]
    /\ UNCHANGED <<queueFile, store, stagingDirs, wpc, queue_data, job, err,
                   locals, enqueued, dequeued, progress, lastIter, crashHist,
                   response>>

\* enqueue_job, lines 63-64: append to the list read and rewrite the file.
ApiWrite ==
    /\ api.pc = "write"
    /\ queueFile' = dumps(Append(api.queue_data, api.job))
    /\ enqueued' = Append(enqueued, api.job.review_id)
    /\ api' = ApiIdle
    /\ UNCHANGED <<store, stagingDirs, wpc, queue_data, job, err, locals,
                   dequeued, progress, lastIter, crashHist, response>>

\* GET /artifacts/{review_id}, lines 87-92.
GetArtifact(review_id) ==
    /\ api.pc = "idle"
    /\ response' = get_artifact(artifacts, review_id)
    /\ UNCHANGED <<queueFile, store, stagingDirs, wpc, queue_data, job, err,
                   locals, enqueued, dequeued, progress, lastIter, crashHist,
                   api>>

ConcNext ==
    \/ \E payload \in Payloads : ApiRead(payload)
    \/ ApiWrite
    \/ Worker

ConcSpec == ConcInit /\ [][ConcNext]_vars

\* The two processes with clients polling for results.
RetrievalNext ==
    \/ ConcNext
    \/ \E review_id \in 1..MaxConcJobs : GetArtifact(review_id)

RetrievalSpec == ConcInit /\ [][RetrievalNext]_vars

\* ------------------------------------------------------ a clone that hangs
\* Line 74: Repo.clone_from is called without a timeout (no
\* kill_after_timeout); against a remote that accepts the connection and
\* sends nothing the call does not return, and nothing in the worker
\* process interrupts it.
CloneBlocks ==
    /\ wpc = "clone"
    /\ wpc' = "clone_blocked"
    /\ UNCHANGED <<queueFile, store, stagingDirs, queue_data, job, err, locals,
                   enqueued, dequeued, progress, lastIter, crashHist, web>>

HangWorker ==
    \/ Worker
    \/ CloneBlocks

HangNext ==
    \/ FairNext
    \/ CloneBlocks

\* The worker process keeps running whenever one of its steps can be taken.
HangSpec == Init /\ [][HangNext]_vars /\ WF_vars(HangWorker)

\* ================================================================ claims
Ids(q) == {q[i].review_id : i \in 1..Len(q)}
IdSeq(q) == [i \in 1..Len(q) |-> q[i].review_id]
Range(q) == {q[i] : i \in 1..Len(q)}
LastDequeued == dequeued[Len(dequeued)]
\* process_review is past line 77 / line 78 (a failed clone skips both).
AfterPylint ==
    \/ wpc \in {"semgrep", "collect", "rank", "write"}
    \/ wpc = "finally" /\ err # "clone"
AfterSemgrep ==
    \/ wpc \in {"collect", "rank", "write"}
    \/ wpc = "finally" /\ err # "clone"

\* C1: when process_review has returned for a dequeued job and the loop is
\* back at its sleep, whatever path was taken (success, clone failure, an
\* exception in a later stage), exactly one artifact document was written for
\* that review_id.
C1_ExactlyOneArtifact ==
    (wpc = "sleep" /\ lastIter \in {"completed", "clone_failed",
                                    "collect_failed", "write_failed"})
        => artifactWrites[LastDequeued] = 1

\* C2: after an iteration whose clone failed, the artifact of that review
\* exists with status "failed" and a non-empty error string.
C2_CloneFailureArtifact ==
    (wpc = "sleep" /\ lastIter = "clone_failed") =>
        LET a == artifacts[LastDequeued]
        IN  /\ a.fmt = "json"
            /\ Get(a.val, "status", NoneStr) = "failed"
            /\ Get(a.val, "error", "") # ""

\* C3: once process_review has exited for a job, on any path, no staging
\* directory of that job exists.
C3_StagingRemoved ==
    \A id \in finished : id \notin stagingDirs

\* C4: jobs are dequeued in append order; once as many jobs were dequeued as
\* were enqueued the queue is empty, and the loop never sets out to pop then.
C4_QueueRoundTrip ==
    /\ Len(dequeued) <= Len(enqueued)
    /\ \A i \in 1..Len(dequeued) : dequeued[i] = enqueued[i]
    /\ Len(dequeued) = Len(enqueued) => QueueOf(queueFile) = <<>> /\ wpc # "pop"

\* C4 witness: all jobs (at least two) came out in order and the next
\* dequeue found the queue empty.
C4_Witness ==
    /\ Len(enqueued) >= 2
    /\ dequeued = enqueued
    /\ wpc = "sleep"
    /\ lastIter = "empty"

C6_OneActiveJob ==
    /\ Cardinality(active) <= 1
    /\ wpc \in {"poll", "pop", "sleep"} => active = {}
    /\ wpc = "mkdtemp" => active = {}

\* C6 witness: a job is being processed while another waits in the queue.
C6_Witness ==
    /\ active # {}
    /\ wpc = "pylint"
    /\ QueueOf(queueFile) # <<>>

\* C7: a dequeue or an enqueue that finds the queue document malformed leaves
\* a well-formed document behind.
C7_MalformedQueueReset ==
    [][(queueFile.fmt = "bad"
        /\ ((wpc = "poll" /\ wpc' # "poll") \/ enqueued' # enqueued))
       => queueFile'.fmt = "json"]_vars

Unparseable(p) == p.outcome = "exit" /\ p.stdout.fmt = "bad"

ClaimedFailure(p) == RunRaises(p) \/ Unparseable(p) \/ (p.outcome = "exit" /\ p.code # 0)

LongLen == MaxFindings + 1

\* A pylint message of category typ at line i (NoneStr: no "type" key).
PylintItem(typ, i) ==
    IF typ = "<notdict>" THEN NotADict
    ELSE IF typ = NoneStr
    THEN [path |-> "a.py", line |-> i, symbol |-> "no-type", message |-> "m"]
    ELSE [type |-> typ, path |-> "a.py", line |-> i, symbol |-> "sym-" \o typ,
          message |-> "m"]

\* A semgrep result of severity sev starting at line i (NoneStr: no
\* "severity" key in "extra").
SemgrepItem(sev, i) ==
    IF sev = "<notdict>" THEN NotADict
    ELSE IF sev = NoneStr
    THEN [check_id |-> "rule-none", path |-> "b.py", start |-> [line |-> i],
          extra |-> [message |-> "m", lines |-> 12]]
    ELSE [check_id |-> "rule-" \o sev, path |-> "b.py", start |-> [line |-> i],
          extra |-> [severity |-> sev, message |-> "m", lines |-> 450]]

PylintCategories ==
    {"fatal", "error", "warning", "convention", "refactor", "info", NoneStr}
PylintRankKinds == {"error", "fatal", "warning", "convention", "<notdict>"}
SemgrepSeverities ==
    {"ERROR", "error", "Error", "WARNING", "warning", "INFO", "info",
     "CRITICAL", "", NoneStr}
SemgrepRankKinds == {"ERROR", "WARNING", "INFO", "<notdict>"}
LongPylintKinds == {"convention", "error"}
LongSemgrepKinds == {"INFO", "ERROR"}

KindSeqs(kinds, lo, hi) == UNION {[1..n -> kinds] : n \in lo..hi}

\* n items whose kinds repeat the pattern ks; the line of an item is its
\* place in the list.
MakePylint(ks, n) == [i \in 1..n |-> PylintItem(ks[((i - 1) % Len(ks)) + 1], i)]
MakeSemgrep(ks, n) == [i \in 1..n |-> SemgrepItem(ks[((i - 1) % Len(ks)) + 1], i)]

PylintInputs ==
    {MakePylint(ks, Len(ks)) : ks \in KindSeqs(PylintRankKinds, 0, MaxItems)}
    \cup {MakePylint(<<c>>, 1) : c \in PylintCategories}
    \cup {MakePylint(ks, LongLen) : ks \in KindSeqs(LongPylintKinds, 1, MaxItems)}

SemgrepInputs ==
    {MakeSemgrep(ks, Len(ks)) : ks \in KindSeqs(SemgrepRankKinds, 0, MaxItems)}
    \cup {MakeSemgrep(<<c>>, 1) : c \in SemgrepSeverities}
    \cup {MakeSemgrep(ks, LongLen) : ks \in KindSeqs(LongSemgrepKinds, 1, MaxItems)}

RankJob == [review_id |-> 1, payload |-> [repo_url |-> GoodUrl]]

RankInit ==
    /\ queueFile = dumps(<<>>)
    /\ artifacts = [i \in ReviewIds |-> Absent]
    /\ stagingDirs = {1}
    /\ wpc = "rank"
    /\ queue_data = <<>>
    /\ job = RankJob
    /\ err = "none"
    /\ pylint_results \in PylintInputs
    /\ pylintProc = ProcResult("exit", 0, dumps(pylint_results))
    /\ \E sem \in SemgrepInputs :
        /\ semgrep_results \in {ResultsDict(sem), EmptyDict}
        /\ semgrepProc = ProcResult("exit", 0, dumps(semgrep_results))
    /\ triage = NoTriage
    /\ enqueued = <<1>>
    /\ dequeued = <<1>>
    /\ artifactWrites = [i \in ReviewIds |-> 0]
    /\ active = {1}
    /\ finished = {}
    /\ lastIter = "none"
    /\ crashes = 0
    /\ crashLost = {}
    /\ api = ApiIdle
    /\ response = NoResponse

RankNext ==
    \/ Rank
    \/ WriteArtifact
    \/ Finally

RankSpec == RankInit /\ [][RankNext]_vars

\* ------------------------------------------------ claims on the ranking
\* The triage has been built (lines 160-174) and the locals still stand.
AtRanked == wpc \in {"write", "finally"}
RankedOut == triage.findings

\* The raw items of a list up to the first one whose mapping raises.
GoodPrefixLen(items) ==
    LET bad == {i \in 1..Len(items) : MapRaises(items[i])}
    IN  IF bad = {} THEN Len(items)
        ELSE (CHOOSE i \in bad : \A j \in bad : i <= j) - 1

\* The merged list the claims speak of: the findings of the pylint items,
\* then those of the semgrep items, each in the tool's own order.
ExpectedMerged ==
    LET sem == SemgResultsList(semgrep_results)
    IN  [i \in 1..GoodPrefixLen(pylint_results) |->
            map_pylint_to_finding(pylint_results[i])]
        \o [i \in 1..GoodPrefixLen(sem) |-> map_semgrep_to_finding(sem[i])]

\* high > medium > low as the claims order them.
SeverityRank(sev) == IF sev = "high" THEN 3 ELSE IF sev = "medium" THEN 2 ELSE 1

OfSeverity(fs, sev) == LET Is(f) == f.severity = sev IN SelectSeq(fs, Is)
IsPrefix(a, b) == Len(a) <= Len(b) /\ a = SubSeq(b, 1, Len(a))

\* C11: for a non-empty merged list the ranked output is ordered by severity
\* descending, and the findings of each severity appear in their merge order
\* (all of them when the list is within the cap).
C11_SortedStable ==
    (AtRanked /\ ExpectedMerged # <<>>) =>
        /\ \A i, j \in 1..Len(RankedOut) :
              i < j => SeverityRank(RankedOut[i].severity)
                           >= SeverityRank(RankedOut[j].severity)
        /\ \A sev \in {"high", "medium", "low"} :
              /\ IsPrefix(OfSeverity(RankedOut, sev), OfSeverity(ExpectedMerged, sev))
              /\ Len(ExpectedMerged) <= MaxFindings =>
                    OfSeverity(RankedOut, sev) = OfSeverity(ExpectedMerged, sev)

\* C11 witness: both tools report a medium finding before a high one, and the
\* list has been ranked.
C11_Witness ==
    /\ wpc = "write"
    /\ pylint_results = MakePylint(<<"warning", "error">>, 2)
    /\ semgrep_results = ResultsDict(MakeSemgrep(<<"WARNING", "ERROR">>, 2))
    /\ Len(RankedOut) = 4

\* C12: the ranked list, and the findings of the artifact written, never
\* exceed the cap of 25; the list is cut after sorting: its length is the
\* smaller of the merged length and the cap, and every finding left out has a
\* severity no higher than any finding kept.
C12_CappedAfterSort ==
    /\ AtRanked =>
        /\ Len(RankedOut) <= MaxFindings
        /\ ExpectedMerged # <<>> =>
              Len(RankedOut) = Min(Len(ExpectedMerged), MaxFindings)
        /\ \A f \in Range(ExpectedMerged) \ Range(RankedOut) :
              \A g \in Range(RankedOut) :
                  SeverityRank(g.severity) >= SeverityRank(f.severity)
    /\ \A id \in ReviewIds :
          artifacts[id].fmt = "json" =>
              Len(artifacts[id].val.triage.findings) <= MaxFindings

\* C12 witness: more than 25 findings were merged, a high one among those
\* past the 25th, and the artifact holding 25 was written.
C12_Witness ==
    /\ wpc = "finally"
    /\ Len(ExpectedMerged) > MaxFindings
    /\ \E i \in (MaxFindings + 1)..Len(ExpectedMerged) :
          ExpectedMerged[i].severity = "high"
    /\ artifacts[1].fmt = "json"
    /\ Len(artifacts[1].val.triage.findings) = MaxFindings

\* C13: no artifact holds an empty findings list, and when neither analyzer
\* contributed a finding the artifact written holds exactly one finding, the
\* low-severity "no-issues" one.
C13_NoIssuesFinding ==
    /\ \A id \in ReviewIds :
          artifacts[id].fmt = "json" => artifacts[id].val.triage.findings # <<>>
    /\ (wpc = "finally" /\ err = "none" /\ pylint_results = <<>>
            /\ SemgResultsList(semgrep_results) = <<>>) =>
          LET fs == artifacts[job.review_id].val.triage.findings
          IN  /\ Len(fs) = 1
              /\ fs[1].id = [name |-> "no-issues"]
              /\ fs[1].severity = "low"

\* C13 witness: both analyzers failed and the artifact was written.
C13_Witness ==
    /\ wpc = "finally"
    /\ err = "none"
    /\ pylintProc.outcome = "timeout"
    /\ semgrepProc.outcome = "missing"
    /\ artifactWrites[job.review_id] = 1

\* ------------------------------------------------ claim C14 (reasoning service)
\* process_review never calls the reasoning service (worker.py line 176,
\* "not using LLM yet"): the triage is built from the analyzer findings and
\* the patch is None, whatever the state of the service.

\* C14: a job whose artifact was written ends with an artifact whose status
\* is "completed", whose findings are the ranked analyzer findings and whose
\* patch is empty.
C14_CompletedOnEnrichmentFailure ==
    (wpc = "finally" /\ err = "none") =>
        LET a == artifacts[job.review_id].val
        IN  /\ a.triage = triage
            /\ a.patch = NoneStr
            /\ Get(a, "status", NoneStr) = "completed"

\* The part of C14 the artifact satisfies: analyzer-derived findings and an
\* empty patch.
C14_FindingsAndEmptyPatch ==
    (wpc = "finally" /\ err = "none") =>
        LET a == artifacts[job.review_id].val
        IN  /\ a.triage = triage
            /\ a.patch = NoneStr

\* ------------------------------------------------------ claim C15 (retrieval)
\* C15: a retrieval answers "not ready" (404) exactly when no artifact file
\* exists for the id and otherwise returns the document of the file as it
\* stands; and no step changes or removes an artifact that has been written.
C15_RetrievalAndImmutable ==
    [][/\ \A id \in ReviewIds :
            artifacts[id].fmt = "json" => artifacts'[id] = artifacts[id]
       /\ response' # response =>
            LET id == response'.id
            IN  /\ response'.status \in {200, 404}
                /\ response'.status = 404 <=> artifacts[id].fmt = "absent"
                /\ response'.status = 200 => response'.body = artifacts[id]]_vars

\* The retrieval half of C15 alone.
C15_RetrievalVerbatim ==
    [][response' # response =>
            LET id == response'.id
            IN  /\ response'.status \in {200, 404}
                /\ response'.status = 404 <=> artifacts[id].fmt = "absent"
                /\ response'.status = 200 => response'.body = artifacts[id]]_vars

\* -------------------------------------------- claim C19 (interleaved queue)
\* C19: with enqueue_job and the loop's read-pop-rewrite interleaving on the
\* queue file, every job whose enqueue has completed is in the file or has
\* been dequeued (none is lost), no dequeued job is in the file again, and no
\* job is dequeued twice.
C19_NoLossNoReplay ==
    /\ \A id \in Range(enqueued) :
          id \in Ids(QueueOf(queueFile)) \/ id \in Range(dequeued)
    /\ \A id \in Range(dequeued) : id \notin Ids(QueueOf(queueFile))
    /\ \A i, j \in DOMAIN dequeued : i # j => dequeued[i] # dequeued[j]

\* ---------------------------------------------------- claim C16 (termination)
\* C16: every job that is dequeued is processed to the end: process_review
\* returns and the loop reaches its sleep, whatever the external calls do.
C16_ProcessingTerminates == (wpc = "mkdtemp") ~> (wpc = "sleep")

\* The analyzers are bounded by their timeouts (lines 34 and 51): once the
\* clone has returned, process_review returns.
C16_TerminatesAfterClone == (wpc = "pylint") ~> (wpc = "sleep")

\* ------------------------------------------- claims on the normalizer
\* The raw item a ranked finding was mapped from: the generated items carry
\* their position in the tool's list as their line.
PylintItemOf(f) == pylint_results[f.id.line]
SemgrepItemOf(f) == SemgResultsList(semgrep_results)[f.id.start]

\* The tool of a finding; the "no-issues" finding has none.
ToolOf(f) == Get(f, "tool", NoneStr)

\* The severity word of a semgrep item as the tool printed it.
PrintedSeverity(item) == Get(Get(item, "extra", [none |-> TRUE]), "severity", NoneStr)

\* C17: every ranked semgrep finding has the severity its item's severity
\* word stands for whatever its letter case (ERROR high, WARNING medium, INFO
\* low), medium when the word is unknown, empty or missing, and confidence
\* 0.9 when that severity is high and 0.7 otherwise; every semgrep item
\* mapped is ranked unless the cap cut it.
C17_SemgrepSeverity ==
    AtRanked =>
        /\ \A k \in DOMAIN RankedOut :
              ToolOf(RankedOut[k]) = "semgrep" =>
                  LET f == RankedOut[k]
                      w == PrintedSeverity(SemgrepItemOf(f))
                      expected ==
                          IF w \in {"ERROR", "error", "Error"} THEN "high"
                          ELSE IF w \in {"INFO", "info", "Info"} THEN "low"
                          ELSE "medium"
                  IN  /\ f.severity = expected
                      /\ f.confidence = IF expected = "high" THEN 9 ELSE 7
        /\ Len(ExpectedMerged) <= MaxFindings =>
              \A i \in 1..GoodPrefixLen(SemgResultsList(semgrep_results)) :
                  \E k \in DOMAIN RankedOut :
                      ToolOf(RankedOut[k]) = "semgrep" /\ RankedOut[k].id.start = i

\* C17 witness: an item printed with a lower-case "error" was ranked high
\* with confidence 0.9.
C17_Witness ==
    /\ wpc = "write"
    /\ semgrep_results = ResultsDict(MakeSemgrep(<<"error">>, 1))
    /\ \E k \in DOMAIN RankedOut :
          /\ ToolOf(RankedOut[k]) = "semgrep"
          /\ RankedOut[k].severity = "high"
          /\ RankedOut[k].confidence = 9

\* C18: every ranked pylint finding has severity high for category fatal or
\* error, medium for warning and low for convention, refactor, info or no
\* category; its evidence is the item's path and line with an empty snippet;
\* its id is made of the item's path, line and symbol and nothing else; every
\* pylint item mapped is ranked unless the cap cut it.
C18_PylintMapping ==
    AtRanked =>
        /\ \A k \in DOMAIN RankedOut :
              ToolOf(RankedOut[k]) = "pylint" =>
                  LET f == RankedOut[k]
                      item == PylintItemOf(f)
                      category == Get(item, "type", NoneStr)
                      expected ==
                          IF category \in {"fatal", "error"} THEN "high"
                          ELSE IF category = "warning" THEN "medium"
                          ELSE "low"
                  IN  /\ f.severity = expected
                      /\ f.evidence = <<[path |-> item.path,
                                         start_line |-> item.line,
                                         snippet |-> 0]>>
                      /\ f.id = [tool |-> "pylint", path |-> item.path,
                                 line |-> item.line, symbol |-> item.symbol]
        /\ Len(ExpectedMerged) <= MaxFindings =>
              \A i \in 1..GoodPrefixLen(pylint_results) :
                  \E k \in DOMAIN RankedOut :
                      ToolOf(RankedOut[k]) = "pylint" /\ RankedOut[k].id.line = i

\* C18 witness: a fatal item and a convention item were ranked, high and low.
C18_Witness ==
    /\ wpc = "write"
    /\ pylint_results = MakePylint(<<"fatal", "convention">>, 2)
    /\ \E k \in DOMAIN RankedOut :
          RankedOut[k].id = [tool |-> "pylint", path |-> "a.py", line |-> 1,
                             symbol |-> "sym-fatal"]
          /\ RankedOut[k].severity = "high"
    /\ \E k \in DOMAIN RankedOut :
          ToolOf(RankedOut[k]) = "pylint" /\ RankedOut[k].severity = "low"

\* ------------------------------------------------ claim C20 (mapping raises)
SomeItemRaises ==
    \/ \E i \in DOMAIN pylint_results : MapRaises(pylint_results[i])
    \/ \E i \in DOMAIN SemgResultsList(semgrep_results) :
          MapRaises(SemgResultsList(semgrep_results)[i])

\* C20: when the mapping of a raw item raised, process_review still goes on
\* to rank and write: the findings mapped before that item and those of the
\* other analyzer are all in the ranked list (unless the cap cut them), the
\* list holds nothing else, and the artifact written holds that list.
C20_MappingFailureIsolated ==
    (AtRanked /\ SomeItemRaises) =>
        /\ wpc = "write" => err = "none"
        /\ Len(ExpectedMerged) <= MaxFindings =>
              \A i \in DOMAIN ExpectedMerged :
                  \E k \in DOMAIN RankedOut : RankedOut[k] = ExpectedMerged[i]
        /\ ExpectedMerged # <<>> =>
              \A k \in DOMAIN RankedOut :
                  \E i \in DOMAIN ExpectedMerged : RankedOut[k] = ExpectedMerged[i]
        /\ (wpc = "finally" /\ err = "none") =>
              /\ artifacts[job.review_id].fmt = "json"
              /\ artifacts[job.review_id].val.triage = triage

\* C20 witness: the second pylint item raised, the first one and the semgrep
\* finding were ranked, and the artifact holding both was written.
C20_Witness ==
    /\ wpc = "finally"
    /\ err = "none"
    /\ pylint_results = MakePylint(<<"error", "<notdict>">>, 2)
    /\ semgrep_results = ResultsDict(MakeSemgrep(<<"WARNING">>, 1))
    /\ Len(artifacts[job.review_id].val.triage.findings) = 2

====
